---- MODULE Spec2Model ----
(***************************************************************************)
(* Model of height_map_lidar (mdp/observations.py): the batched            *)
(* point-cloud-to-height-map rasterizer, with the sensor and robot buffers *)
(* it reads and the module-level history deque prev_height_maps.           *)
(*                                                                         *)
(* Numbers.  A tensor entry is an IEEE value: a finite number, NaN, +Inf   *)
(* or -Inf.  Finite lengths are fixed-point integers in centimetres (the   *)
(* grid constants 0.06, -0.8, 0.2, 0.8, 5.0 and the threshold 0.05 are all *)
(* whole centimetres); quaternion components are integers in thousandths   *)
(* (sensor_quat_default is given to three decimals).  A product is rounded *)
(* to the nearest unit, as the float arithmetic rounds to its precision.   *)
(***************************************************************************)
EXTENDS Integers, Sequences, FiniteSets

(***************************************************************************)
(* Bounds of the model.                                                    *)
(***************************************************************************)
MaxEnvs == 2
MaxRays == 3

(***************************************************************************)
(* IEEE values.                                                            *)
(***************************************************************************)
Fin(n) == [k |-> "fin", v |-> n]
NaN == [k |-> "nan", v |-> 0]
PInf == [k |-> "inf", v |-> 1]
NInf == [k |-> "inf", v |-> -1]

isnan(a) == a.k = "nan"
isinf(a) == a.k = "inf"
isfinite(a) == a.k = "fin"

\* a - b
FSub(a, b) ==
    IF isnan(a) \/ isnan(b) THEN NaN
    ELSE IF isinf(a) THEN (IF isinf(b) /\ a.v = b.v THEN NaN ELSE a)
    ELSE IF isinf(b) THEN (IF b.v = 1 THEN NInf ELSE PInf)
    ELSE Fin(a.v - b.v)

\* a < b (false when either is NaN)
FLt(a, b) ==
    IF isfinite(a) /\ isfinite(b) THEN a.v < b.v
    ELSE /\ ~isnan(a)
         /\ ~isnan(b)
         /\ IF isinf(a) /\ isinf(b) THEN a.v < b.v
            ELSE IF isinf(a) THEN a.v = -1
            ELSE b.v = 1

\* a <= b (false when either is NaN)
FLe(a, b) == ~isnan(a) /\ ~isnan(b) /\ ~FLt(b, a)

\* variant: the reduction keeps the maximum (reduce="amax")
FMaxVariant(a, b) ==
    IF isnan(a) \/ isnan(b) THEN NaN
    ELSE IF FLt(a, b) THEN b ELSE a

\* the minimum scatter_reduce_(reduce="amin") keeps: NaN propagates
FMin(a, b) ==
    IF isnan(a) \/ isnan(b) THEN NaN
    ELSE IF FLt(b, a) THEN b ELSE a

\* n / d rounded to the nearest integer (d > 0)
Round(n, d) == (2 * n + d) \div (2 * d)

(***************************************************************************)
(* Grid constants (module level, lines 283-287), in centimetres.  The 1e-9 *)
(* added to the upper ends is far below the fixed-point unit: it changes   *)
(* neither which fixed-point values pass "<= range[1]" nor the number of   *)
(* edges, ceil(100.0000001 / 6) = ceil(100 / 6) = 17.                      *)
(***************************************************************************)
voxel_size_xy == 6
range_x == <<-80, 20>>
range_y == <<-80, 80>>
range_z == <<0, 500>>
\* the threshold 0.05 of the clamp
MinHeight == 5

\* torch.arange(start, end, step): start + k*step for k = 0 .. ceil((end-start)/step)-1
arange(start, end, step) ==
    [k \in 1..((end - start + step - 1) \div step) |-> start + (k - 1) * step]

x_bins == arange(range_x[1], range_x[2], voxel_size_xy)
y_bins == arange(range_y[1], range_y[2], voxel_size_xy)
\* len(x_bins), len(y_bins)
Bx == Len(x_bins)
By == Len(y_bins)

(***************************************************************************)
(* Quaternions (w, x, y, z), components in thousandths.                    *)
(***************************************************************************)
QUnit == 1000
sensor_quat_default == <<Fin(-131), Fin(0), Fin(-991), Fin(0)>>

AllFinite(t) == \A i \in DOMAIN t : isfinite(t[i])

\* math_utils.quat_mul: the Hamilton product.  Every component of the
\* product reads every component of both factors, so one NaN component
\* makes the whole product NaN.
quat_mul(q1, q2) ==
    IF ~(AllFinite(q1) /\ AllFinite(q2)) THEN <<NaN, NaN, NaN, NaN>>
    ELSE LET w1 == q1[1].v  x1 == q1[2].v  y1 == q1[3].v  z1 == q1[4].v
             w2 == q2[1].v  x2 == q2[2].v  y2 == q2[3].v  z2 == q2[4].v
         IN  << Fin(Round(w1 * w2 - x1 * x2 - y1 * y2 - z1 * z2, QUnit)),
                Fin(Round(w1 * x2 + x1 * w2 + y1 * z2 - z1 * y2, QUnit)),
                Fin(Round(w1 * y2 - x1 * z2 + y1 * w2 + z1 * x2, QUnit)),
                Fin(Round(w1 * z2 + x1 * y2 - y1 * x2 + z1 * w2, QUnit)) >>

\* math_utils.quat_rotate_inverse: a - b + c with a = v (2 w^2 - 1),
\* b = 2 w (q_vec x v), c = 2 q_vec (q_vec . v).  v is finite (sanitized);
\* with a NaN in q, a or c is NaN in every component.
quat_rotate_inverse(q, v) ==
    IF ~AllFinite(q) THEN <<NaN, NaN, NaN>>
    ELSE LET w == q[1].v  x == q[2].v  y == q[3].v  z == q[4].v
             vx == v[1].v  vy == v[2].v  vz == v[3].v
             s == 2 * w * w - QUnit * QUnit
             cx == y * vz - z * vy
             cy == z * vx - x * vz
             cz == x * vy - y * vx
             d == x * vx + y * vy + z * vz
         IN  << Fin(Round(vx * s - 2 * w * cx + 2 * x * d, QUnit * QUnit)),
                Fin(Round(vy * s - 2 * w * cy + 2 * y * d, QUnit * QUnit)),
                Fin(Round(vz * s - 2 * w * cz + 2 * z * d, QUnit * QUnit)) >>

(***************************************************************************)
(* The steps of height_map_lidar, as operators of the sensor buffers.      *)
(* hits[e][r] and pos[e] are triples, quat[e] a quadruple, e in 1..N.      *)
(***************************************************************************)
\* line 304: hit_vec[torch.isinf(hit_vec)] = 0.0
SanitizeInf(a) == IF isinf(a) THEN Fin(0) ELSE a
\* line 305: hit_vec[torch.isnan(hit_vec)] = 0.0
SanitizeNan(a) == IF isnan(a) THEN Fin(0) ELSE a

\* lines 303-305
HitVec(hits, pos) ==
    [e \in DOMAIN hits |->
        [r \in DOMAIN hits[e] |->
            [c \in 1..3 |-> SanitizeNan(SanitizeInf(FSub(hits[e][r][c], pos[e][c])))]]]

\* lines 309-314: every ray of environment e is rotated by the inverse of
\* root_quat_w[e] * sensor_quat_default
LidarFrame(hv, quat) ==
    [e \in DOMAIN hv |->
        [r \in DOMAIN hv[e] |->
            quat_rotate_inverse(quat_mul(quat[e], sensor_quat_default), hv[e][r])]]

\* variant: the lower limits of x and y are inclusive
ValidClosedLower(p) ==
    /\ FLe(Fin(range_x[1]), p[1]) /\ FLe(p[1], Fin(range_x[2]))
    /\ FLe(Fin(range_y[1]), p[2]) /\ FLe(p[2], Fin(range_y[2]))
    /\ FLe(Fin(range_z[1]), p[3]) /\ FLe(p[3], Fin(range_z[2]))

\* lines 326-328
Valid(p) ==
    /\ FLt(Fin(range_x[1]), p[1]) /\ FLe(p[1], Fin(range_x[2]))
    /\ FLt(Fin(range_y[1]), p[2]) /\ FLe(p[2], Fin(range_y[2]))
    /\ FLe(Fin(range_z[1]), p[3]) /\ FLe(p[3], Fin(range_z[2]))

\* boolean indexing t[valid_indices]: the valid (e, r) in row-major order
RowMajor(N, R) == [k \in 1..(N * R) |-> <<((k - 1) \div R) + 1, ((k - 1) % R) + 1>>]
IsValidRay(lf, er) == Valid(lf[er[1]][er[2]])
ValidRays(lf, N, R) == SelectSeq(RowMajor(N, R), LAMBDA er : IsValidRay(lf, er))

\* torch.bucketize(v, boundaries), right=False: the 0-based index of the
\* first boundary b with v <= b, len(boundaries) when there is none
RECURSIVE LowerBound(_, _, _)
LowerBound(v, boundaries, i) ==
    IF i > Len(boundaries) THEN Len(boundaries)
    ELSE IF FLe(v, Fin(boundaries[i])) THEN i - 1
    ELSE LowerBound(v, boundaries, i + 1)
\* variant: right=True, the first boundary b with v < b
RECURSIVE UpperBound(_, _, _)
UpperBound(v, boundaries, i) ==
    IF i > Len(boundaries) THEN Len(boundaries)
    ELSE IF FLt(v, Fin(boundaries[i])) THEN i - 1
    ELSE UpperBound(v, boundaries, i + 1)
bucketizeRight(v, boundaries) == UpperBound(v, boundaries, 1)

bucketize(v, boundaries) == LowerBound(v, boundaries, 1)

\* lines 334-335
XIndex(p) == bucketize(p[1], x_bins) - 1
YIndex(p) == bucketize(p[2], y_bins) - 1

\* variant: the environment stride misses the factor len(y_bins)
LinearIndexShortStride(e, p) == (e - 1) * Bx + XIndex(p) * By + YIndex(p)

\* line 341, for the ray (e, r) with local point p (env index e - 1)
LinearIndex(e, p) == (e - 1) * Bx * By + XIndex(p) * By + YIndex(p)

\* lines 337-341: one entry per valid ray, in the order of the filter
ScatterArgs(lf, N, R) ==
    LET vr == ValidRays(lf, N, R)
    IN  [k \in 1..Len(vr) |->
            [env |-> vr[k][1], ray |-> vr[k][2],
             x_index |-> XIndex(lf[vr[k][1]][vr[k][2]]),
             y_index |-> YIndex(lf[vr[k][1]][vr[k][2]]),
             index |-> LinearIndex(vr[k][1], lf[vr[k][1]][vr[k][2]]),
             z |-> lf[vr[k][1]][vr[k][2]][3]]]

FlatCells(N) == 0..(N * Bx * By - 1)

\* line 340: torch.full(..., inf), viewed flat
FullInf(N) == [c \in FlatCells(N) |-> PInf]

\* line 350: scatter_reduce_(0, linear_indices, z_filtered, reduce="amin")
\* (include_self: the +Inf already in the cell takes part in the minimum).
\* An index outside the tensor is an error in torch; here it writes nothing.
RECURSIVE ScatterAmin(_, _, _)
ScatterAmin(m, args, k) ==
    IF k > Len(args) THEN m
    ELSE ScatterAmin(
            IF args[k].index \in DOMAIN m
            THEN [m EXCEPT ![args[k].index] = FMin(@, args[k].z)]
            ELSE m,
            args, k + 1)

\* line 350: "- offset"
SubOffset(m, off) == [c \in DOMAIN m |-> FSub(m[c], off)]
\* variant: only negative values are clamped
ThresholdNegativeOnly(m) == [c \in DOMAIN m |-> IF FLt(m[c], Fin(0)) THEN Fin(0) ELSE m[c]]
\* line 351: torch.where(map_2_5D < 0.05, 0.0, map_2_5D)
Threshold(m) == [c \in DOMAIN m |-> IF FLt(m[c], Fin(MinHeight)) THEN Fin(0) ELSE m[c]]
\* variant: empty cells keep their +Inf
ZeroInfSkipped(m) == m
\* line 358: torch.where(torch.isinf(map_2_5D), 0.0, map_2_5D)
ZeroInf(m) == [c \in DOMAIN m |-> IF isinf(m[c]) THEN Fin(0) ELSE m[c]]

\* line 363: view(num_envs, len(x_bins), len(y_bins)); (i, j) 0-based
CellAt(m, e, i, j) == m[(e - 1) * Bx * By + i * By + j]

\* F.max_pool2d pads with -Inf
Padded(m, e, i, j) ==
    IF 0 <= i /\ i < Bx /\ 0 <= j /\ j < By THEN CellAt(m, e, i, j) ELSE NInf

\* the running maximum of the pooling kernel: a NaN is taken and kept
PoolMax(acc, val) == IF isnan(val) \/ FLt(acc, val) THEN val ELSE acc

\* kernel_size=3, stride=1, padding=1: the window of output cell (i, j) is
\* rows i-1..i+1, columns j-1..j+1 of the padded input, scanned row by row
PoolWindow(m, e, i, j) ==
    PoolMax(PoolMax(PoolMax(
    PoolMax(PoolMax(PoolMax(
    PoolMax(PoolMax(PoolMax(NInf,
        Padded(m, e, i - 1, j - 1)), Padded(m, e, i - 1, j)), Padded(m, e, i - 1, j + 1)),
        Padded(m, e, i, j - 1)), Padded(m, e, i, j)), Padded(m, e, i, j + 1)),
        Padded(m, e, i + 1, j - 1)), Padded(m, e, i + 1, j)), Padded(m, e, i + 1, j + 1))

\* variant: padding=0 semantics, the window starts at the cell itself
MaxPoolTopLeft(m, N) ==
    [e \in 1..N |->
        [p \in 0..(Bx * By - 1) |->
            PoolWindow(m, e, (p \div By) + 1, (p % By) + 1)]]

\* line 364: max_pool2d over each environment's grid, then view(num_envs, -1)
MaxPool(m, N) ==
    [e \in 1..N |->
        [p \in 0..(Bx * By - 1) |->
            PoolWindow(m, e, p \div By, p % By)]]

\* variant: lines 353-355 active, prev_height_maps.append(map_2_5D.clone())
DequeAppend(deque, m) ==
    IF Len(deque) < 10 THEN Append(deque, m) ELSE Append(Tail(deque), m)

\* lines 353-355: the append to the history deque is commented out
DequeAfterCall(deque, m) == deque

\* height_map_lidar, lines 303-385: every intermediate tensor and the result
HeightMapLidar(hits, pos, quat, off, N, R) ==
    LET lf == LidarFrame(HitVec(hits, pos), quat)
        args == ScatterArgs(lf, N, R)
        mmin == ScatterAmin(FullInf(N), args, 1)
        thr == Threshold(SubOffset(mmin, off))
        pre == ZeroInf(thr)
    IN  [hit_vec_lidar_frame |-> lf,
         scatter_args |-> args,
         map_min |-> mmin,
         map_thr |-> thr,
         map_pre |-> pre,
         max_across_frames |-> MaxPool(pre, N)]

(***************************************************************************)
(* What the simulation writes into the buffers of one environment: the    *)
(* sensor position, the robot root quaternion and the ray hits (world      *)
(* frame, centimetres).  Ray r of a scene is rays[r], cyclically.  The      *)
(* comment of each ray gives its point in the lidar frame.                 *)
(***************************************************************************)
W(x, y, z) == <<Fin(x), Fin(y), Fin(z)>>
IdentityQuat == <<Fin(QUnit), Fin(0), Fin(0), Fin(0)>>
Yaw180Quat == <<Fin(0), Fin(0), Fin(0), Fin(QUnit)>>
NaNQuat == <<NaN, Fin(0), Fin(0), Fin(0)>>
NaNRay == <<NaN, NaN, NaN>>

Scenes ==
    << \* 1: a spike of height 120 in cell (13, 13), then a ray without a hit
       [pos |-> W(0, 0, 0), quat |-> IdentityQuat,
        rays |-> << W(30, 1, -116),               \* (1, 1, 120)
                    NaNRay,                       \* sanitized: (0, 0, 0)
                    W(-3, 0, 10),                 \* (0, 0, -10): z < z_min
                    <<NaN, Fin(10), Fin(-55)>> >>], \* sanitized: (14, 10, 53)
       \* 2: two points in cell (13, 13), one in cell (0, 0)
       [pos |-> W(0, 0, 0), quat |-> IdentityQuat,
        rays |-> << W(5, 3, -30),                 \* (3, 3, 30)
                    W(21, 1, -88),                \* (3, 1, 90)
                    W(94, -79, -47),              \* (-79, -79, 70): just above x_min, y_min
                    W(10, 81, -39) >>],           \* (0, 81, 40): y > y_max
       \* 3: points on bin edges and on the limits of the ranges; the sensor
       \* is away from the origin and the robot turned by half a turn
       [pos |-> W(100, -20, 200), quat |-> Yaw180Quat,
        rays |-> << W(38, 30, 162),               \* (-50, -50, 53): on edge 5 of x and of y
                    W(104, -100, 137),            \* (20, 80, 60): x = x_max, y = y_max
                    W(10, -20, 172),              \* (-80, 0, 50): x = x_min
                    W(18, -20, 181) >>],          \* (-74, 0, 40): on edge 1 of x
       \* 4: no ray hits anything
       [pos |-> W(0, 0, 0), quat |-> IdentityQuat,
        rays |-> << <<PInf, PInf, PInf>>,
                    <<NInf, PInf, NInf>>,
                    <<PInf, NInf, PInf>>,
                    <<NInf, NInf, NInf>> >>],
       \* 5: a root quaternion and a sensor position that are not finite
       [pos |-> <<PInf, Fin(0), NaN>>, quat |-> NaNQuat,
        rays |-> << W(30, 1, -116), <<PInf, PInf, PInf>>, NaNRay, W(5, 3, -30) >>]
    >>

SceneRays(s, R) == [r \in 1..R |-> Scenes[s].rays[((r - 1) % Len(Scenes[s].rays)) + 1]]

\* before the first simulation step no ray has hit anything: every
\* environment holds the scene whose rays are all Inf
InitScene ==
    CHOOSE s \in 1..Len(Scenes) :
        \A r \in 1..Len(Scenes[s].rays), c \in 1..3 : isinf(Scenes[s].rays[r][c])

\* the offset term parameter (default 0.5), set when the observation term
\* is configured, as the subtraction of line 350 sees it: a value of the
\* grid's dtype (a Python float beyond the float32 range arrives there as
\* +Inf or -Inf, which AnyOffsets covers)
FiniteOffsets == {Fin(50), Fin(-100)}
AnyOffsets == FiniteOffsets \cup {NaN, PInf, NInf}

(***************************************************************************)
(* State.                                                                  *)
(***************************************************************************)
VARIABLES
    num_envs,             \* N, hit_vec.shape[0]
    num_rays,             \* R, hit_vec.shape[1]
    offset,               \* the offset argument
    ray_hits_w,           \* sensor.data.ray_hits_w, [N, R, 3]
    pos_w,                \* sensor.data.pos_w, [N, 3]
    root_quat_w,          \* env.scene["robot"].data.root_quat_w, [N, 4]
    prev_height_maps,     \* the module-level deque(maxlen=10)
    phase,                \* "observe": the buffers are fresh; "returned": the call returned
    hit_vec_lidar_frame,  \* the locals of the last call, <<>> before it
    scatter_args,
    map_min,
    map_thr,
    map_pre,
    max_across_frames,    \* the returned tensor
    first_out,            \* the tensor the first call returned
    interleaved           \* a call on other inputs than the first call's has returned

vars == <<num_envs, num_rays, offset, ray_hits_w, pos_w, root_quat_w,
          prev_height_maps, phase, hit_vec_lidar_frame, scatter_args,
          map_min, map_thr, map_pre, max_across_frames, first_out, interleaved>>

InitHits(N, R) == [e \in 1..N |-> SceneRays(InitScene, R)]
InitPos(N) == [e \in 1..N |-> Scenes[InitScene].pos]
InitQuat(N) == [e \in 1..N |-> Scenes[InitScene].quat]

InitWith(offsets) ==
    /\ num_envs \in 1..MaxEnvs
    /\ num_rays \in 1..MaxRays
    /\ offset \in offsets
    /\ ray_hits_w = InitHits(num_envs, num_rays)
    /\ pos_w = InitPos(num_envs)
    /\ root_quat_w = InitQuat(num_envs)
    /\ prev_height_maps = <<>>
    /\ phase = "observe"
    /\ hit_vec_lidar_frame = <<>>
    /\ scatter_args = <<>>
    /\ map_min = <<>>
    /\ map_thr = <<>>
    /\ map_pre = <<>>
    /\ max_across_frames = <<>>
    /\ first_out = <<>>
    /\ interleaved = FALSE

Init == InitWith(FiniteOffsets)
InitAnyOffset == InitWith(AnyOffsets)

AtInitialInputs ==
    /\ ray_hits_w = InitHits(num_envs, num_rays)
    /\ pos_w = InitPos(num_envs)
    /\ root_quat_w = InitQuat(num_envs)

\* A simulation step writes scene s into the buffers of environment e; the
\* tensor the last call returned is gone by then.
SensorUpdate(e, s) ==
    /\ phase = "returned"
    /\ ray_hits_w' = [ray_hits_w EXCEPT ![e] = SceneRays(s, num_rays)]
    /\ pos_w' = [pos_w EXCEPT ![e] = Scenes[s].pos]
    /\ root_quat_w' = [root_quat_w EXCEPT ![e] = Scenes[s].quat]
    /\ phase' = "observe"
    /\ hit_vec_lidar_frame' = <<>>
    /\ scatter_args' = <<>>
    /\ map_min' = <<>>
    /\ map_thr' = <<>>
    /\ map_pre' = <<>>
    /\ max_across_frames' = <<>>
    /\ UNCHANGED <<num_envs, num_rays, offset, prev_height_maps, first_out, interleaved>>

\* The observation term is computed: one call of height_map_lidar.
height_map_lidar ==
    /\ phase = "observe"
    /\ \E c \in {HeightMapLidar(ray_hits_w, pos_w, root_quat_w, offset, num_envs, num_rays)} :
        /\ hit_vec_lidar_frame' = c.hit_vec_lidar_frame
        /\ scatter_args' = c.scatter_args
        /\ map_min' = c.map_min
        /\ map_thr' = c.map_thr
        /\ map_pre' = c.map_pre
        /\ max_across_frames' = c.max_across_frames
        /\ prev_height_maps' = DequeAfterCall(prev_height_maps, c.map_thr)
        /\ first_out' = IF first_out = <<>> THEN c.max_across_frames ELSE first_out
    /\ interleaved' = (interleaved \/ ~AtInitialInputs)
    /\ phase' = "returned"
    /\ UNCHANGED <<num_envs, num_rays, offset, ray_hits_w, pos_w, root_quat_w>>

Next ==
    \/ \E e \in 1..num_envs, s \in 1..Len(Scenes) : SensorUpdate(e, s)
    \/ height_map_lidar

Spec == Init /\ [][Next]_vars
SpecAnyOffset == InitAnyOffset /\ [][Next]_vars

Returned == phase = "returned"

(***************************************************************************)
(* Properties.                                                             *)
(***************************************************************************)
Envs == 1..num_envs
Rays == 1..num_rays
Rows == 0..(Bx - 1)
Cols == 0..(By - 1)
Out(e, i, j) == max_across_frames[e][i * By + j]
Local(e, r) == hit_vec_lidar_frame[e][r]

\* C1: with a finite offset, no entry of the returned tensor is NaN, +Inf
\* or -Inf, whatever the ray hits, sensor positions and root quaternions.
C1_OutputFinite ==
    Returned =>
        \A e \in Envs : \A p \in DOMAIN max_across_frames[e] :
            isfinite(max_across_frames[e][p])

\* a call on a batch with NaN, +Inf and -Inf ray components and an empty cell
C1_Witness ==
    /\ Returned
    /\ isfinite(offset)
    /\ \E e \in Envs, r \in Rays, c \in 1..3 : isnan(ray_hits_w[e][r][c])
    /\ \E e \in Envs, r \in Rays, c \in 1..3 : ray_hits_w[e][r][c] = PInf
    /\ \E e \in Envs, r \in Rays, c \in 1..3 : ray_hits_w[e][r][c] = NInf
    /\ \E c \in DOMAIN map_min : map_min[c] = PInf
    /\ \E c \in DOMAIN map_min : isfinite(map_min[c])

ZeroOrAtLeastMin(v) == v = Fin(0) \/ FLe(Fin(MinHeight), v)

C2_Body ==
    Returned =>
        /\ \A c \in DOMAIN map_thr :
            /\ ZeroOrAtLeastMin(map_thr[c])
            /\ FLt(FSub(map_min[c], offset), Fin(MinHeight)) => map_thr[c] = Fin(0)
        /\ \A e \in Envs : \A p \in DOMAIN max_across_frames[e] :
            ZeroOrAtLeastMin(max_across_frames[e][p])

\* C2 as stated: for any input and any offset, every entry of the grid after
\* the threshold step and every entry of the returned tensor is 0.0 or at
\* least 0.05.
C2_AnyOffset == C2_Body

\* C2, amended: the same for any offset that is neither NaN nor +Inf.
C2_OffsetNotNaNNorPInf == (~isnan(offset) /\ offset # PInf) => C2_Body

\* a cell whose minimum minus the offset lies strictly between 0 and 0.05
C2_Witness ==
    /\ Returned
    /\ isfinite(offset)
    /\ \E c \in DOMAIN map_thr :
        /\ FLt(Fin(0), FSub(map_min[c], offset))
        /\ FLt(FSub(map_min[c], offset), Fin(MinHeight))
        /\ map_thr[c] = Fin(0)
    /\ \E c \in DOMAIN map_thr : isfinite(map_thr[c]) /\ FLe(Fin(MinHeight), map_thr[c])

\* the ranges of the filter, as the claims state them
InRanges(p) ==
    /\ FLt(Fin(range_x[1]), p[1]) /\ FLe(p[1], Fin(range_x[2]))
    /\ FLt(Fin(range_y[1]), p[2]) /\ FLe(p[2], Fin(range_y[2]))
    /\ FLe(Fin(range_z[1]), p[3]) /\ FLe(p[3], Fin(range_z[2]))

\* bin k (0-based) of an axis: above edge k, up to edge k + 1 (the last bin
\* has no edge above it)
InBin(v, edges, k) ==
    /\ k \in 0..(Len(edges) - 1)
    /\ FLt(Fin(edges[k + 1]), v)
    /\ (k = Len(edges) - 1 \/ FLe(v, Fin(edges[k + 2])))

RaysOfCell(e, i, j) ==
    {r \in Rays : /\ InRanges(Local(e, r))
                  /\ InBin(Local(e, r)[1], x_bins, i)
                  /\ InBin(Local(e, r)[2], y_bins, j)}

MinZ(e, S) ==
    LET zs == {Local(e, r)[3] : r \in S}
    IN  CHOOSE z \in zs : \A w \in zs : FLe(z, w)

\* C3: before the offset is subtracted, cell (i, j) of environment e holds
\* the minimum local z over the rays of e that pass the three range tests
\* and fall in bin (i, j), and +Inf when there is no such ray.
C3_CellIsMinimum ==
    Returned =>
        \A e \in Envs, i \in Rows, j \in Cols :
            LET S == RaysOfCell(e, i, j)
            IN  CellAt(map_min, e, i, j) = IF S = {} THEN PInf ELSE MinZ(e, S)

\* two rays of different height in one cell, and a ray outside the ranges
C3_Witness ==
    /\ Returned
    /\ \E e \in Envs, i \in Rows, j \in Cols :
        /\ \E r1, r2 \in RaysOfCell(e, i, j) :
            /\ r1 < r2
            /\ FLt(Local(e, r1)[3], Local(e, r2)[3])
        /\ CellAt(map_min, e, i, j) = Fin(30)
    /\ \E e \in Envs, r \in Rays : AllFinite(Local(e, r)) /\ ~InRanges(Local(e, r))

\* the rays of one environment with ray r taken out of the batch
WithoutRay(rays, r) ==
    [k \in 1..(Len(rays) - 1) |-> IF k < r THEN rays[k] ELSE rays[k + 1]]

RowWithoutRay(e, r) ==
    HeightMapLidar(<<WithoutRay(ray_hits_w[e], r)>>, <<pos_w[e]>>, <<root_quat_w[e]>>,
                   offset, 1, num_rays - 1).max_across_frames[1]

\* C4: a ray whose world coordinates are NaN leaves the returned height map
\* of its environment as it is without that ray.
C4_NaNRayAsAbsent ==
    Returned =>
        \A e \in Envs, r \in Rays :
            (\A c \in 1..3 : isnan(ray_hits_w[e][r][c]))
                => max_across_frames[e] = RowWithoutRay(e, r)

OnEdge(v, edges) == {k \in 1..(Len(edges) - 1) : v = Fin(edges[k + 1])}

\* C5 as stated: bins are right-open, a surviving point exactly on edge k
\* (1 <= k <= Bx - 1) is assigned to bin k; the same for y.
C5_RightOpenBins ==
    Returned =>
        \A n \in DOMAIN scatter_args :
            LET a == scatter_args[n]
                p == Local(a.env, a.ray)
            IN  /\ \A k \in OnEdge(p[1], x_bins) : a.x_index = k
                /\ \A k \in OnEdge(p[2], y_bins) : a.y_index = k

\* the edges a value does not exceed (0-based)
NotExceeded(v, edges) == {k \in 0..(Len(edges) - 1) : FLe(v, Fin(edges[k + 1]))}
FirstNotExceeded(v, edges) ==
    IF NotExceeded(v, edges) = {} THEN Len(edges)
    ELSE CHOOSE k \in NotExceeded(v, edges) : \A l \in NotExceeded(v, edges) : k <= l

\* C5, amended: the bin index of a surviving point is the index of the first
\* edge it does not exceed, minus one; bins are left-open and right-closed:
\* bin k covers (x_min + k*cell_size, x_min + (k+1)*cell_size], so a point
\* exactly on edge k (1 <= k <= Bx - 1) is assigned to bin k - 1; the same
\* for y.
C5_LeftOpenBins ==
    Returned =>
        \A n \in DOMAIN scatter_args :
            LET a == scatter_args[n]
                p == Local(a.env, a.ray)
            IN  /\ a.x_index = FirstNotExceeded(p[1], x_bins) - 1
                /\ a.y_index = FirstNotExceeded(p[2], y_bins) - 1
                /\ InBin(p[1], x_bins, a.x_index)
                /\ InBin(p[2], y_bins, a.y_index)
                /\ \A k \in OnEdge(p[1], x_bins) : a.x_index = k - 1
                /\ \A k \in OnEdge(p[2], y_bins) : a.y_index = k - 1

\* a surviving point exactly on an inner edge of x and of y
C5_Witness ==
    /\ Returned
    /\ \E n \in DOMAIN scatter_args :
        LET a == scatter_args[n]
            p == Local(a.env, a.ray)
        IN  OnEdge(p[1], x_bins) # {} /\ OnEdge(p[2], y_bins) # {}

AllRaysInf == \A e \in Envs, r \in Rays, c \in 1..3 : isinf(ray_hits_w[e][r][c])

\* C7: when every ray of every environment reports Inf, the returned tensor
\* has shape [N, 17 * 27] and every entry is 0.0, for any N, R, orientation
\* and offset.
C7_AllInfGivesZeros ==
    (Returned /\ AllRaysInf) =>
        /\ DOMAIN max_across_frames = 1..num_envs
        /\ \A e \in Envs :
            /\ DOMAIN max_across_frames[e] = 0..(17 * 27 - 1)
            /\ \A p \in DOMAIN max_across_frames[e] : max_across_frames[e][p] = Fin(0)

\* the cells of the grid within one step of (i, j)
Neighbours(i, j) ==
    {c \in ((i - 1)..(i + 1)) \X ((j - 1)..(j + 1)) : c[1] \in Rows /\ c[2] \in Cols}

\* C8: the returned value of cell (i, j) of environment e, at flat position
\* i * By + j, is the maximum of the pre-pool values of the cells of that
\* environment's grid within one step of (i, j); so it is at least the
\* pre-pool value of the cell itself.
C8_PoolIsDilation ==
    Returned =>
        \A e \in Envs, i \in Rows, j \in Cols :
            LET around == {CellAt(map_pre, e, c[1], c[2]) : c \in Neighbours(i, j)}
            IN  /\ Out(e, i, j) \in around
                /\ \A v \in around : FLe(v, Out(e, i, j))
                /\ FLe(CellAt(map_pre, e, i, j), Out(e, i, j))

\* a border cell raised by a neighbour, and an inner cell raised by a neighbour
C8_Witness ==
    /\ Returned
    /\ \E e \in Envs, j \in Cols :
        CellAt(map_pre, e, 0, j) = Fin(0) /\ FLt(Fin(0), Out(e, 0, j))
    /\ \E e \in Envs, i \in Rows, j \in Cols :
        /\ i \in 1..(Bx - 2) /\ j \in 1..(By - 2)
        /\ CellAt(map_pre, e, i, j) = Fin(0) /\ FLt(Fin(0), Out(e, i, j))

\* row 1 of the tensor returned for the batch made of environment e alone
RowAlone(e) ==
    HeightMapLidar(<<ray_hits_w[e]>>, <<pos_w[e]>>, <<root_quat_w[e]>>,
                   offset, 1, num_rays).max_across_frames[1]

\* C9: row e of the returned tensor depends on the buffers of environment e
\* and the offset only: it is the row returned for environment e alone, so
\* two batches that agree on environment e agree on row e.
C9_EnvironmentsIndependent ==
    Returned => \A e \in Envs : max_across_frames[e] = RowAlone(e)

\* two environments with different, non-zero rows
C9_Witness ==
    /\ Returned
    /\ num_envs >= 2
    /\ max_across_frames[1] # max_across_frames[2]
    /\ \E p \in DOMAIN max_across_frames[1] : max_across_frames[1][p] # Fin(0)
    /\ \E p \in DOMAIN max_across_frames[2] : max_across_frames[2][p] # Fin(0)

\* C10: every ray that passes the range filter gets x_bin in [0, Bx - 1] and
\* y_bin in [0, By - 1], and its linear index lies in the block of its own
\* environment, within [0, N * Bx * By).
C10_IndicesInBounds ==
    Returned =>
        /\ \A e \in Envs, r \in Rays :
            InRanges(Local(e, r)) <=>
                (\E n \in DOMAIN scatter_args : scatter_args[n].env = e /\ scatter_args[n].ray = r)
        /\ \A n \in DOMAIN scatter_args :
            LET a == scatter_args[n]
            IN  /\ a.x_index \in 0..(Bx - 1)
                /\ a.y_index \in 0..(By - 1)
                /\ a.index >= (a.env - 1) * Bx * By
                /\ a.index < a.env * Bx * By
                /\ a.index >= 0
                /\ a.index < num_envs * Bx * By

\* a ray on both upper limits and a ray just above both lower limits
C10_Witness ==
    /\ Returned
    /\ \E n \in DOMAIN scatter_args :
        LET p == Local(scatter_args[n].env, scatter_args[n].ray)
        IN  /\ p[1] = Fin(range_x[2]) /\ p[2] = Fin(range_y[2])
            /\ scatter_args[n].x_index = Bx - 1 /\ scatter_args[n].y_index = By - 1
    /\ \E n \in DOMAIN scatter_args :
        LET p == Local(scatter_args[n].env, scatter_args[n].ray)
        IN  /\ p[1] = Fin(range_x[1] + 1) /\ p[2] = Fin(range_y[1] + 1)
            /\ scatter_args[n].x_index = 0 /\ scatter_args[n].y_index = 0

====
